---- MODULE Spec2Model ----
(***************************************************************************)
(* Model of src/frontend/script.js, the browser front end of e-consult.    *)
(*                                                                         *)
(* The page is a set of DOM elements (the variables below) driven by event *)
(* handlers.  An async handler runs synchronously up to its fetch, is      *)
(* suspended while the request is in flight and resumes when the fetch     *)
(* settles.  The two awaits of a handler (fetch, then response.json()) are *)
(* one resumption step: the handler neither reads nor writes the page      *)
(* between them, so every interleaving with other handlers is kept.        *)
(*                                                                         *)
(* Left out: #doctorInstructions, which performSearch reads only to fill   *)
(* the body of its request (nothing on the page depends on that body), and *)
(* copyAnswer, which writes the clipboard and the message area only.       *)
(*                                                                         *)
(* Text typed by the user is a sequence of characters, so that trim() is   *)
(* computed and not assumed.  innerHTML values built from template strings *)
(* are the sequence of their pieces.                                       *)
(***************************************************************************)
EXTENDS Integers, Sequences, FiniteSets, TLC

VARIABLES
    pageLoaded,            \* DOMContentLoaded has fired, listeners are attached
    defaultSystemPrompts,  \* #defaultSystemPrompts .value
    question,              \* #question .value
    messageArea,           \* #messageArea .innerHTML
    answerContent,         \* #answerContent .innerHTML
    referencesContent,     \* #referencesContent .innerHTML
    answerSection,         \* #answerSection .style.display
    loading,               \* #loading .style.display
    searchBtnDisabled,     \* #searchBtn .disabled
    settingsRequests,      \* /api/settings fetches that have not settled
    searchRequests,        \* /api/search fetches that have not settled
    stored,                \* the value the settings service stores
    requestsSent,          \* number of fetch calls made so far
    userActions,           \* number of button clicks and Ctrl+Enter presses
    latestSearch,          \* id of the most recently submitted search, 0 if none
    loadSucceeded,         \* loadSettings has written the field
    editedSinceResponse,   \* the user typed in the field after the last settings response
    actionBudget           \* the number of user actions this run is cut off at

vars == <<pageLoaded, defaultSystemPrompts, question, messageArea,
          answerContent, referencesContent, answerSection, loading,
          searchBtnDisabled, settingsRequests, searchRequests, stored,
          requestsSent, userActions, latestSearch, loadSucceeded,
          editedSinceResponse, actionBudget>>

dom == <<defaultSystemPrompts, question, messageArea,
         answerContent, referencesContent, answerSection, loading,
         searchBtnDisabled>>

-----------------------------------------------------------------------------
(* Bounds *)

\* Button clicks and Ctrl+Enter presses in one run of the whole page.
MaxActions == 1

\* Clicks on the settings buttons in one run of the settings handlers.
MaxSettingsActions == 2

\* Clicks and Ctrl+Enter presses in one run of the search handlers.
MaxSearchActions == 2

-----------------------------------------------------------------------------
(* Values *)

\* Texts the user can type in the settings field.
PromptTexts == { <<>>, <<"a">>, <<" ", "b", " ">> }

\* Texts the user can type in the question field.
QuestionTexts == { <<>>, <<" ">>, <<"q">> }

\* A property that is absent from a JSON body (string-valued properties).
Undefined == "undefined"

IsSpace(c) == c \in {" ", "\t", "\n"}

RECURSIVE TrimStart(_)
TrimStart(s) ==
    IF Len(s) > 0 /\ IsSpace(Head(s)) THEN TrimStart(Tail(s)) ELSE s

RECURSIVE TrimEnd(_)
TrimEnd(s) ==
    IF Len(s) > 0 /\ IsSpace(s[Len(s)])
    THEN TrimEnd(SubSeq(s, 1, Len(s) - 1))
    ELSE s

\* String.prototype.trim
trim(s) == TrimEnd(TrimStart(s))

\* JavaScript truthiness of a string-valued property.
Truthy(v) == v \notin {Undefined, ""}

\* a || b on string-valued properties
OrElse(a, b) == IF Truthy(a) THEN a ELSE b

NoMessage == [class |-> "", text |-> <<>>]

\* What fetch settled with.  kind "reject": the promise rejected;
\* "http": a response whose ok flag is false; "json": a 2xx response with a
\* JSON body.
NoResp == [kind |-> "none", success |-> FALSE, settings |-> <<>>,
           message |-> Undefined]

FetchErrorText == "Failed to fetch"
TypeErrorText == "Cannot read properties of undefined"

Rejected == [kind |-> "reject", success |-> FALSE, settings |-> <<>>,
             message |-> Undefined]

\* The status of a response whose ok flag is false.
HttpStatus == "500"

NoError == <<>>

\* A search settle result; see the search section.
NoSearchResp ==
    [kind |-> "none", success |-> FALSE, has_llm_output |-> FALSE,
     summary |-> Undefined, has_sources |-> FALSE, sources_used |-> <<>>,
     error_message |-> Undefined]

HttpErrorText(status) == <<"HTTP error! status: ", status>>

-----------------------------------------------------------------------------
(* DOM helpers *)

showMessageValue(message, type) == [class |-> type, text |-> message]

showMessage(message, type) == messageArea' = showMessageValue(message, type)

hideMessage == messageArea' = NoMessage

showLoading(show) ==
    /\ loading' = (IF show THEN "block" ELSE "none")
    /\ searchBtnDisabled' = show

showAnswerSection == answerSection' = "block"

hideAnswerSection == answerSection' = "none"

-----------------------------------------------------------------------------
InitWith(budget) ==
    /\ actionBudget = budget
    /\ pageLoaded = FALSE
    /\ defaultSystemPrompts = <<>>
    /\ question = <<>>
    /\ messageArea = NoMessage
    /\ answerContent = ""
    /\ referencesContent = <<>>
    /\ answerSection = "none"
    /\ loading = "none"
    /\ searchBtnDisabled = FALSE
    /\ settingsRequests = {}
    /\ searchRequests = {}
    /\ stored \in {trim(t) : t \in PromptTexts}
    /\ requestsSent = 0
    /\ userActions = 0
    /\ latestSearch = 0
    /\ loadSucceeded = FALSE
    /\ editedSinceResponse = FALSE

\* The page before DOMContentLoaded.
Init == InitWith(MaxActions)

-----------------------------------------------------------------------------
(* The user typing into the text fields *)

TypePrompts(t) ==
    /\ UNCHANGED actionBudget
    /\ t # defaultSystemPrompts
    /\ defaultSystemPrompts' = t
    /\ editedSinceResponse' = TRUE
    /\ UNCHANGED <<pageLoaded, question, messageArea,
                   answerContent, referencesContent, answerSection, loading,
                   searchBtnDisabled, settingsRequests, searchRequests, stored,
                   requestsSent, userActions, latestSearch, loadSucceeded>>

TypeQuestion(t) ==
    /\ UNCHANGED actionBudget
    /\ t # question
    /\ question' = t
    /\ UNCHANGED <<pageLoaded, defaultSystemPrompts, messageArea,
                   answerContent, referencesContent, answerSection,
                   loading, searchBtnDisabled, settingsRequests, searchRequests,
                   stored, requestsSent, userActions, latestSearch,
                   loadSucceeded, editedSinceResponse>>

-----------------------------------------------------------------------------
(* Settings: load, save, reset *)

\* fetch(`${API_BASE_URL}/api/settings`, {method, body}) is called.
SettingsFetch(method, body) ==
    /\ requestsSent' = requestsSent + 1
    /\ settingsRequests' = settingsRequests \cup
          {[id |-> requestsSent + 1, method |-> method, body |-> body,
            resp |-> NoResp]}

\* A request the service answered without acting on it: the answer is one of
\* StatelessAnswers(method), whichever the handler is resumed with.
Refused == [kind |-> "refused", success |-> FALSE, settings |-> <<>>,
            message |-> Undefined]

JsonOk(settings) ==
    [kind |-> "json", success |-> TRUE, settings |-> settings,
     message |-> Undefined]

\* Answers that report a failure.
SettingsFailures ==
    {[kind |-> "http", success |-> FALSE, settings |-> <<>>, message |-> Undefined]}
    \cup {[kind |-> "json", success |-> FALSE, settings |-> <<>>, message |-> m] :
            m \in {Undefined, "server says no"}}

\* The answers that neither depend on what the service stores nor change it:
\* the failures and, for GET, a success that carries no settings object.
StatelessAnswers(method) ==
    SettingsFailures \cup (IF method = "GET" THEN {JsonOk(<<>>)} ELSE {})

\* What the fetch of request r can settle with now: a rejection (at any
\* time), or the answer of the service once it has answered.
SettleResults(r) ==
    {Rejected} \cup
    CASE r.resp.kind = "none" -> {}
      [] r.resp.kind = "refused" -> StatelessAnswers(r.method)
      [] OTHER -> {r.resp}

\* initializeFrontend: the listeners are attached and loadSettings is called,
\* which runs up to its fetch.
initializeFrontend ==
    /\ UNCHANGED actionBudget
    /\ ~pageLoaded
    /\ pageLoaded' = TRUE
    /\ SettingsFetch("GET", <<>>)
    /\ UNCHANGED <<dom, searchRequests, stored, userActions, latestSearch,
                   loadSucceeded, editedSinceResponse>>

\* loadSettings without its check of response.ok.
loadSettingsErrorNoOkCheck(res) ==
    IF res.kind = "reject" THEN <<FetchErrorText>> ELSE NoError

\* The error loadSettings throws inside its try block, NoError if none.
loadSettingsError(res) ==
    CASE res.kind = "reject" -> <<FetchErrorText>>
      [] res.kind = "http" -> HttpErrorText(HttpStatus)
      [] OTHER -> NoError

\* loadSettings assigns the field (line 17).
loadSettingsWrites(res) ==
    res.kind = "json" /\ res.success /\ Len(res.settings) > 0

\* loadSettings after its fetch settled with res.
loadSettingsResume(r, res) ==
    /\ UNCHANGED actionBudget
    /\ r \in settingsRequests /\ r.method = "GET"
    /\ res \in SettleResults(r)
    /\ settingsRequests' = settingsRequests \ {r}
    /\ defaultSystemPrompts' =
          (IF loadSettingsWrites(res)
           THEN res.settings[1]      \* value || '' : '' is the only falsy text
           ELSE defaultSystemPrompts)
    /\ IF loadSettingsError(res) # NoError
       THEN showMessage(<<"Kon instellingen niet laden">>, "error")
       ELSE UNCHANGED messageArea
    /\ loadSucceeded' = (loadSucceeded \/ loadSettingsWrites(res))
    /\ editedSinceResponse' = FALSE
    /\ UNCHANGED <<pageLoaded, question, answerContent,
                   referencesContent, answerSection, loading, searchBtnDisabled,
                   searchRequests, stored, requestsSent, userActions,
                   latestSearch>>

\* Click on #saveSettingsBtn: saveSettings runs up to its fetch.
saveSettings ==
    /\ userActions < actionBudget
    /\ UNCHANGED actionBudget
    /\ pageLoaded
    /\ userActions' = userActions + 1
    /\ SettingsFetch("POST", trim(defaultSystemPrompts))
    /\ UNCHANGED <<pageLoaded, dom, searchRequests, stored, latestSearch,
                   loadSucceeded, editedSinceResponse>>

\* The error saveSettings and resetSettings throw inside their try block.
settingsError(res) ==
    CASE res.kind = "reject" -> <<FetchErrorText>>
      [] res.kind = "http" -> HttpErrorText(HttpStatus)
      [] res.kind = "json" /\ ~res.success ->
            <<OrElse(res.message, "Onbekende fout opgetreden")>>
      [] OTHER -> NoError

\* saveSettings after its fetch settled with res.
saveSettingsResume(r, res) ==
    /\ UNCHANGED actionBudget
    /\ r \in settingsRequests /\ r.method = "POST"
    /\ res \in SettleResults(r)
    /\ settingsRequests' = settingsRequests \ {r}
    /\ IF settingsError(res) = NoError
       THEN showMessage(<<"Instellingen succesvol opgeslagen!">>, "success")
       ELSE showMessage(<<"Fout bij opslaan instellingen: ">> \o settingsError(res),
                        "error")
    /\ editedSinceResponse' = FALSE
    /\ UNCHANGED <<pageLoaded, defaultSystemPrompts, question,
                   answerContent, referencesContent,
                   answerSection, loading, searchBtnDisabled, searchRequests,
                   stored, requestsSent, userActions, latestSearch,
                   loadSucceeded>>

\* Click on #resetSettingsBtn: resetSettings asks for confirmation and, when
\* confirmed, runs up to its fetch.
resetSettings(confirmed) ==
    /\ userActions < actionBudget
    /\ UNCHANGED actionBudget
    /\ pageLoaded
    /\ userActions' = userActions + 1
    /\ IF confirmed
       THEN SettingsFetch("DELETE", <<>>)
       ELSE UNCHANGED <<settingsRequests, requestsSent>>
    /\ UNCHANGED <<pageLoaded, dom, searchRequests, stored, latestSearch,
                   loadSucceeded, editedSinceResponse>>

\* resetSettings clearing the field before it has looked at the answer.
resetSettingsResumeClearsFirst(r, res) ==
    /\ UNCHANGED actionBudget
    /\ r \in settingsRequests /\ r.method = "DELETE"
    /\ res \in SettleResults(r)
    /\ settingsRequests' = settingsRequests \ {r}
    /\ defaultSystemPrompts' = <<>>
    /\ IF settingsError(res) = NoError
       THEN showMessage(<<"Instellingen gereset naar standaardwaarden!">>,
                        "success")
       ELSE showMessage(<<"Fout bij resetten instellingen: ">>
                          \o settingsError(res), "error")
    /\ editedSinceResponse' = FALSE
    /\ UNCHANGED <<pageLoaded, question, answerContent,
                   referencesContent, answerSection, loading, searchBtnDisabled,
                   searchRequests, stored, requestsSent, userActions,
                   latestSearch, loadSucceeded>>

\* resetSettings sending its DELETE again after a failure.
resetSettingsResumeRetry(r, res) ==
    /\ r \in settingsRequests /\ r.method = "DELETE"
    /\ res \in SettleResults(r)
    /\ IF settingsError(res) = NoError
       THEN /\ defaultSystemPrompts' = <<>>
            /\ showMessage(<<"Instellingen gereset naar standaardwaarden!">>,
                           "success")
            /\ settingsRequests' = settingsRequests \ {r}
            /\ UNCHANGED requestsSent
       ELSE /\ UNCHANGED defaultSystemPrompts
            /\ showMessage(<<"Fout bij resetten instellingen: ">>
                             \o settingsError(res), "error")
            /\ requestsSent' = requestsSent + 1
            /\ settingsRequests' = (settingsRequests \ {r}) \cup
                  {[id |-> requestsSent + 1, method |-> "DELETE",
                    body |-> <<>>, resp |-> NoResp]}
    /\ editedSinceResponse' = FALSE
    /\ UNCHANGED <<pageLoaded, question, answerContent,
                   referencesContent, answerSection, loading, searchBtnDisabled,
                   searchRequests, stored, userActions, latestSearch,
                   loadSucceeded, actionBudget>>

\* resetSettings after its fetch settled with res.
resetSettingsResume(r, res) ==
    /\ UNCHANGED actionBudget
    /\ r \in settingsRequests /\ r.method = "DELETE"
    /\ res \in SettleResults(r)
    /\ settingsRequests' = settingsRequests \ {r}
    /\ IF settingsError(res) = NoError
       THEN /\ defaultSystemPrompts' = <<>>
            /\ showMessage(<<"Instellingen gereset naar standaardwaarden!">>,
                           "success")
       ELSE /\ UNCHANGED defaultSystemPrompts
            /\ showMessage(<<"Fout bij resetten instellingen: ">>
                             \o settingsError(res), "error")
    /\ editedSinceResponse' = FALSE
    /\ UNCHANGED <<pageLoaded, question, answerContent,
                   referencesContent, answerSection, loading, searchBtnDisabled,
                   searchRequests, stored, requestsSent, userActions,
                   latestSearch, loadSucceeded>>

-----------------------------------------------------------------------------
(* The settings service, as section 6 of the specification describes it *)

DefaultPrompts == <<>>

\* The service receives request r.  It acts on it and answers as section 6
\* says (act), or answers with one of StatelessAnswers and changes nothing.
SettingsService(r, act) ==
    /\ UNCHANGED actionBudget
    /\ r \in settingsRequests /\ r.resp.kind = "none"
    /\ stored' = (IF ~act THEN stored
                  ELSE CASE r.method = "POST" -> r.body
                         [] r.method = "DELETE" -> DefaultPrompts
                         [] OTHER -> stored)
    /\ settingsRequests' = (settingsRequests \ {r}) \cup
          {[r EXCEPT !.resp = IF ~act THEN Refused
                              ELSE IF r.method = "GET" THEN JsonOk(<<stored>>)
                              ELSE JsonOk(<<>>)]}
    /\ UNCHANGED <<pageLoaded, dom, searchRequests, requestsSent, userActions,
                   latestSearch, loadSucceeded, editedSinceResponse>>

-----------------------------------------------------------------------------
(* Search *)

Source1 == [title |-> "T1", url |-> "u1"]
Source2 == [title |-> "T2", url |-> "u2"]

\* llm_output objects a search answer can carry.
LlmOutputs ==
    {[summary |-> sm, has_sources |-> hs, sources_used |-> su] :
        sm \in {"", "S1", "S2"}, hs \in {TRUE},
        su \in {<<>>, <<Source1>>, <<Source2, Source1>>}}
    \cup {[summary |-> sm, has_sources |-> FALSE, sources_used |-> <<>>] :
        sm \in {"", "S1", "S2"}}

SearchJson(success, has_llm, llm, error_message) ==
    [kind |-> "json", success |-> success, has_llm_output |-> has_llm,
     summary |-> llm.summary, has_sources |-> llm.has_sources,
     sources_used |-> llm.sources_used, error_message |-> error_message]

NoLlm == [summary |-> Undefined, has_sources |-> FALSE, sources_used |-> <<>>]

\* Everything the fetch of a search can settle with.
SearchResults ==
    {[NoSearchResp EXCEPT !.kind = "reject"], [NoSearchResp EXCEPT !.kind = "http"]}
    \cup {SearchJson(TRUE, TRUE, llm, Undefined) : llm \in LlmOutputs}
    \cup {SearchJson(TRUE, FALSE, NoLlm, Undefined)}
    \cup {SearchJson(FALSE, TRUE, llm, e) : llm \in LlmOutputs, e \in {Undefined, "E1"}}
    \cup {SearchJson(FALSE, FALSE, NoLlm, e) : e \in {Undefined, "E1"}}

\* The question without the trim of line 94.
questionValueUntrimmed == question

\* const question = document.getElementById('question').value.trim()
questionValue == trim(question)

\* performSearch from its first line to its fetch (or its early return).
performSearch ==
    IF questionValue = <<>>
    THEN /\ showMessage(<<"Vul eerst een vraag in.">>, "error")
         /\ UNCHANGED <<defaultSystemPrompts, question, answerContent,
                        referencesContent, answerSection,
                        loading, searchBtnDisabled, searchRequests,
                        requestsSent, latestSearch>>
    ELSE /\ showLoading(TRUE)
         /\ hideMessage
         /\ hideAnswerSection
         /\ requestsSent' = requestsSent + 1
         /\ searchRequests' = searchRequests \cup
               {[id |-> requestsSent + 1, query |-> questionValue]}
         /\ latestSearch' = requestsSent + 1
         /\ UNCHANGED <<defaultSystemPrompts, question, answerContent, referencesContent>>

\* Click on #searchBtn; a disabled button dispatches no click.
searchBtnClick ==
    /\ userActions < actionBudget
    /\ UNCHANGED actionBudget
    /\ pageLoaded
    /\ ~searchBtnDisabled
    /\ userActions' = userActions + 1
    /\ performSearch
    /\ UNCHANGED <<pageLoaded, settingsRequests, stored, loadSucceeded,
                   editedSinceResponse, actionBudget>>

\* Ctrl+Enter in #question.
ctrlEnter ==
    /\ userActions < actionBudget
    /\ UNCHANGED actionBudget
    /\ pageLoaded
    /\ userActions' = userActions + 1
    /\ performSearch
    /\ UNCHANGED <<pageLoaded, settingsRequests, stored, loadSucceeded,
                   editedSinceResponse, actionBudget>>

\* displayResults(data) throws at its first read of data.llm_output.summary
\* when llm_output is absent, before it has written anything.
displayResultsThrows(res) == ~res.has_llm_output

\* The error thrown inside the try block of performSearch, NoError if none.
performSearchError(res) ==
    CASE res.kind = "reject" -> <<FetchErrorText>>
      [] res.kind = "http" -> HttpErrorText(HttpStatus)
      [] res.kind = "json" /\ res.success ->
            IF displayResultsThrows(res) THEN <<TypeErrorText>> ELSE NoError
      [] OTHER ->
            IF res.has_llm_output /\ Truthy(res.summary)
            THEN NoError
            ELSE <<OrElse(res.error_message, "Onbekende fout opgetreden")>>

\* performSearch calls displayResults and displayResults completes.
performSearchDisplays(res) ==
    /\ res.kind = "json"
    /\ res.success \/ (res.has_llm_output /\ Truthy(res.summary))
    /\ ~displayResultsThrows(res)

\* The references markup displayResults builds.
referencesHTML(res) ==
    IF res.has_sources /\ Len(res.sources_used) > 0
    THEN <<"<h4>Gebruikte bronnen:</h4><ul>">>
         \o [i \in 1..Len(res.sources_used) |->
                <<"<li><a href=", res.sources_used[i].url, ">",
                  res.sources_used[i].title, "</a></li>">>]
         \o <<"</ul>">>
    ELSE <<"<p>Geen bronnen gevonden.</p>">>

\* displayResults without its call of showAnswerSection.
displayResultsNoShow(res) ==
    /\ answerContent' = OrElse(res.summary, "Geen samenvatting beschikbaar.")
    /\ referencesContent' = referencesHTML(res)
    /\ UNCHANGED answerSection

\* displayResults(data), when it does not throw.
displayResults(res) ==
    /\ answerContent' = OrElse(res.summary, "Geen samenvatting beschikbaar.")
    /\ referencesContent' = referencesHTML(res)
    /\ showAnswerSection

\* The message performSearch shows after its fetch settled with res.
performSearchMessage(res) ==
    IF performSearchError(res) # NoError
    THEN showMessageValue(<<"Fout bij zoeken: ">> \o performSearchError(res), "error")
    ELSE IF res.success
         THEN showMessageValue(<<"Zoekopdracht succesvol voltooid!">>, "success")
         ELSE showMessageValue(
                <<"Waarschuwing: ", OrElse(res.error_message, "Onbekende fout opgetreden")>>,
                "warning")

\* showLoading(false) as the last statement of the try block.
performSearchFinallyInTry(res) ==
    IF performSearchError(res) = NoError
    THEN showLoading(FALSE)
    ELSE UNCHANGED <<loading, searchBtnDisabled>>

\* The finally block of performSearch.
performSearchFinally(res) == showLoading(FALSE)

\* performSearch after its fetch settled with res.
performSearchResume(r, res) ==
    /\ UNCHANGED actionBudget
    /\ r \in searchRequests
    /\ res \in SearchResults
    /\ searchRequests' = searchRequests \ {r}
    /\ IF performSearchDisplays(res)
       THEN displayResults(res)
       ELSE UNCHANGED <<answerContent, referencesContent, answerSection>>
    /\ messageArea' = performSearchMessage(res)
    /\ performSearchFinally(res)
    /\ UNCHANGED <<pageLoaded, defaultSystemPrompts, question,
                   settingsRequests, stored, requestsSent,
                   userActions, latestSearch, loadSucceeded,
                   editedSinceResponse, actionBudget>>

-----------------------------------------------------------------------------
(* The answer buttons *)

\* Click on #saveAnswerBtn.
saveAnswer ==
    /\ userActions < actionBudget
    /\ UNCHANGED actionBudget
    /\ pageLoaded
    /\ userActions' = userActions + 1
    /\ showMessage(<<"Antwoord opgeslagen! (In een echte app zou dit naar een database gaan)">>,
                   "success")
    /\ UNCHANGED <<pageLoaded, defaultSystemPrompts, question,
                   answerContent, referencesContent,
                   answerSection, loading, searchBtnDisabled, settingsRequests,
                   searchRequests, stored, requestsSent, latestSearch,
                   loadSucceeded, editedSinceResponse>>

\* Click on #clearAnswerBtn.
clearAnswer ==
    /\ userActions < actionBudget
    /\ UNCHANGED actionBudget
    /\ pageLoaded
    /\ userActions' = userActions + 1
    /\ answerContent' = ""
    /\ referencesContent' = <<>>
    /\ hideAnswerSection
    /\ showMessage(<<"Antwoord gewist!">>, "success")
    /\ UNCHANGED <<pageLoaded, defaultSystemPrompts, question,
                   loading, searchBtnDisabled,
                   settingsRequests, searchRequests, stored, requestsSent,
                   latestSearch, loadSucceeded, editedSinceResponse>>

-----------------------------------------------------------------------------
(* Specifications *)

SettingsUser ==
    \/ saveSettings
    \/ \E confirmed \in BOOLEAN : resetSettings(confirmed)

SettingsNetwork ==
    \/ \E r \in settingsRequests : \E act \in BOOLEAN : SettingsService(r, act)
    \/ \E r \in settingsRequests : \E res \in SettleResults(r) : loadSettingsResume(r, res)
    \/ \E r \in settingsRequests : \E res \in SettleResults(r) : saveSettingsResume(r, res)
    \/ \E r \in settingsRequests : \E res \in SettleResults(r) : resetSettingsResume(r, res)

SearchUser ==
    \/ searchBtnClick
    \/ ctrlEnter
    \/ saveAnswer
    \/ clearAnswer

\* Every search fetch settles.
SearchNetwork ==
    \E r \in searchRequests : \E res \in SearchResults : performSearchResume(r, res)

\* The whole page.
Next ==
    \/ initializeFrontend
    \/ \E t \in PromptTexts : TypePrompts(t)
    \/ \E t \in QuestionTexts : TypeQuestion(t)
    \/ SettingsUser
    \/ SearchUser
    \/ SettingsNetwork
    \/ SearchNetwork

Spec == Init /\ [][Next]_vars

\* The settings handlers alone: the search controls are left untouched.
SettingsNext ==
    \/ initializeFrontend
    \/ \E t \in PromptTexts : TypePrompts(t)
    \/ SettingsUser
    \/ SettingsNetwork

SettingsSpec == InitWith(MaxSettingsActions) /\ [][SettingsNext]_vars

\* The search handlers alone: the settings fetch of the page load is still
\* in flight and the settings buttons are left untouched.
SearchNext ==
    \/ initializeFrontend
    \/ \E t \in QuestionTexts : TypeQuestion(t)
    \/ SearchUser
    \/ SearchNetwork

SearchSpec == InitWith(MaxSearchActions) /\ [][SearchNext]_vars

\* The same, with every search fetch settling eventually.
SearchLiveSpec == SearchSpec /\ WF_vars(SearchNetwork)

-----------------------------------------------------------------------------
(* Properties *)

\* The failures of section 7, as a settle result of either API.
IsFailure(res) ==
    \/ res.kind \in {"reject", "http"}
    \/ res.kind = "json" /\ ~res.success

LoadFailedMessage ==
    [class |-> "error", text |-> <<"Kon instellingen niet laden">>]

SearchSuccessMessage ==
    [class |-> "success", text |-> <<"Zoekopdracht succesvol voltooid!">>]

EmptyQuestionMessage ==
    [class |-> "error", text |-> <<"Vul eerst een vraag in.">>]

NoSourcesMarkup == <<"<p>Geen bronnen gevonden.</p>">>

\* content is the references list of the sources of res.
RendersSources(content, res) ==
    IF ~res.has_sources \/ res.sources_used = <<>>
    THEN content = NoSourcesMarkup
    ELSE /\ Len(content) = Len(res.sources_used) + 2
         /\ \A i \in 1..Len(res.sources_used) :
               /\ content[i + 1][2] = res.sources_used[i].url
               /\ content[i + 1][4] = res.sources_used[i].title

\* C1: whenever one of the four handlers is resumed with a failure (non-2xx
\* status, rejected fetch, 2xx body with success false), the message area
\* holds an error or warning message when the handler finishes.
C1_EveryFailureShowsMessage ==
    [][ /\ \A r \in settingsRequests : \A res \in SettleResults(r) :
            ( /\ IsFailure(res)
              /\ \/ loadSettingsResume(r, res)
                 \/ saveSettingsResume(r, res)
                 \/ resetSettingsResume(r, res) )
            => messageArea'.class \in {"error", "warning"}
        /\ \A r \in searchRequests : \A res \in SearchResults :
            (IsFailure(res) /\ performSearchResume(r, res))
            => messageArea'.class \in {"error", "warning"} ]_vars

\* C2: when loadSettings is resumed with a non-2xx status or a rejected
\* fetch, 'Kon instellingen niet laden' is shown and the field keeps its
\* value; loadSettings changes the field only on a 2xx body with success true
\* and a settings object.
C2_FailedLoadKeepsField ==
    [][ \A r \in settingsRequests : \A res \in SettleResults(r) :
          loadSettingsResume(r, res) =>
            /\ res.kind \in {"reject", "http"} =>
                  /\ messageArea' = LoadFailedMessage
                  /\ defaultSystemPrompts' = defaultSystemPrompts
            /\ defaultSystemPrompts' # defaultSystemPrompts =>
                  /\ res.kind = "json"
                  /\ res.success
                  /\ Len(res.settings) = 1 ]_vars

\* A failed load has left a text the user typed in the field.
C2_Witness ==
    /\ messageArea = LoadFailedMessage
    /\ defaultSystemPrompts = <<" ", "b", " ">>
    /\ settingsRequests = {}

\* C3: once the load has succeeded, whenever no settings request is in
\* flight and the user has not edited the field since the last response, the
\* trimmed field equals what the service stores.
C3_FieldReflectsStored ==
    (loadSucceeded /\ settingsRequests = {} /\ ~editedSinceResponse)
        => trim(defaultSystemPrompts) = stored

\* C4: the number of requests sent never exceeds the number of user actions
\* plus the one GET of the page load.
C4_OneRequestPerAction ==
    requestsSent <= userActions + (IF pageLoaded THEN 1 ELSE 0)

\* A user action's request failed, nothing is in flight and nothing was
\* sent again.
C4_Witness ==
    /\ userActions = 1
    /\ requestsSent = 2
    /\ settingsRequests = {} /\ searchRequests = {}
    /\ messageArea.class = "error"
    /\ messageArea # LoadFailedMessage

\* What C5 says the page shows after a successful search.
SuccessfulSearchShown(res) ==
    /\ answerSection' = "block"
    /\ answerContent' =
          (IF res.summary \in {"", Undefined}
           THEN "Geen samenvatting beschikbaar." ELSE res.summary)
    /\ RendersSources(referencesContent', res)
    /\ messageArea' = SearchSuccessMessage

\* C5 as stated: on every 2xx answer with success true, performSearch ends
\* with the answer section visible, the summary or its placeholder, the
\* references list or its placeholder, and the success message.
C5_SuccessShowsAnswer ==
    [][ \A r \in searchRequests : \A res \in SearchResults :
          (performSearchResume(r, res) /\ res.kind = "json" /\ res.success)
          => SuccessfulSearchShown(res) ]_vars

\* C5 amended: the same, for the answers that carry an llm_output object.
C5_SuccessWithOutputShowsAnswer ==
    [][ \A r \in searchRequests : \A res \in SearchResults :
          ( /\ performSearchResume(r, res)
            /\ res.kind = "json" /\ res.success /\ res.has_llm_output )
          => SuccessfulSearchShown(res) ]_vars

\* A successful search with a summary and two sources is on the page.
C5_Witness ==
    /\ messageArea = SearchSuccessMessage
    /\ answerSection = "block"
    /\ answerContent = "S1"
    /\ Len(referencesContent) = 4
    /\ searchRequests = {}

SearchInFlight(i) == \E r \in searchRequests : r.id = i

\* C6: every search in flight leads to a state where it has settled, the
\* loading indicator is hidden and the search button is enabled.
C6_LoadingEventuallyHidden ==
    \A i \in 1..(MaxSearchActions + 1) :
        SearchInFlight(i) ~>
            (~SearchInFlight(i) /\ loading = "none" /\ ~searchBtnDisabled)

\* A search whose rendering threw has settled with the indicator hidden.
C6_Witness ==
    /\ messageArea = [class |-> "error",
                      text |-> <<"Fout bij zoeken: ", TypeErrorText>>]
    /\ latestSearch > 0
    /\ searchRequests = {}
    /\ loading = "none"
    /\ ~searchBtnDisabled

\* C7: the loading indicator is shown, and the search button disabled,
\* exactly when a search request is in flight.
C7_LoadingIffSearchInFlight ==
    /\ loading = "block" <=> searchRequests # {}
    /\ searchBtnDisabled <=> searchRequests # {}

\* C8: the answer to a search that is not the most recently submitted one
\* changes neither the answer, nor the references, nor the visibility of the
\* answer section.
C8_StaleAnswerIgnored ==
    [][ \A r \in searchRequests : \A res \in SearchResults :
          (performSearchResume(r, res) /\ r.id < latestSearch)
          => UNCHANGED <<answerContent, referencesContent, answerSection>> ]_vars

\* C9: on a 2xx answer with success false, a non-empty summary is displayed
\* with a warning; otherwise nothing is rendered, the answer section is
\* hidden and the message is an error; the success message is never shown.
C9_FailureWithOrWithoutSummary ==
    [][ \A r \in searchRequests : \A res \in SearchResults :
          (performSearchResume(r, res) /\ res.kind = "json" /\ ~res.success)
          => /\ messageArea' # SearchSuccessMessage
             /\ IF res.has_llm_output /\ res.summary \notin {"", Undefined}
                THEN /\ answerContent' = res.summary
                     /\ RendersSources(referencesContent', res)
                     /\ answerSection' = "block"
                     /\ messageArea' =
                          [class |-> "warning",
                           text |-> <<"Waarschuwing: ",
                                      IF res.error_message = Undefined
                                      THEN "Onbekende fout opgetreden"
                                      ELSE res.error_message>>]
                ELSE /\ UNCHANGED <<answerContent, referencesContent>>
                     /\ answerSection' = "none"
                     /\ messageArea'.class = "error"
                     /\ Head(messageArea'.text) = "Fout bij zoeken: " ]_vars

\* C10: performSearch with an empty or whitespace-only question sends
\* nothing, shows 'Vul eerst een vraag in.' and leaves the loading indicator,
\* the search button, the answer section and its contents as they were.
C10_EmptyQuestionSendsNothing ==
    [][ ((searchBtnClick \/ ctrlEnter) /\ trim(question) = <<>>)
        => /\ requestsSent' = requestsSent
           /\ searchRequests' = searchRequests
           /\ messageArea' = EmptyQuestionMessage
           /\ UNCHANGED <<loading, searchBtnDisabled, answerSection,
                          answerContent, referencesContent>> ]_vars

\* A whitespace-only question was submitted while an answer was on the page.
C10_Witness ==
    /\ messageArea = EmptyQuestionMessage
    /\ question = <<" ">>
    /\ answerSection = "block"
    /\ answerContent = "S1"
    /\ searchRequests = {}

\* C11: resetSettings changes the field only by clearing it, and only when
\* it is resumed with a 2xx body with success true; a declined confirmation
\* sends nothing and leaves the field and the message area; a DELETE that
\* fails (non-2xx, rejected fetch, success false) leaves the field and shows
\* an error message.
C11_ResetClearsOnlyOnSuccess ==
    [][ /\ resetSettings(FALSE) =>
              /\ requestsSent' = requestsSent
              /\ settingsRequests' = settingsRequests
              /\ UNCHANGED <<defaultSystemPrompts, messageArea>>
        /\ resetSettings(TRUE) => UNCHANGED defaultSystemPrompts
        /\ \A r \in settingsRequests : \A res \in SettleResults(r) :
              resetSettingsResume(r, res) =>
                /\ defaultSystemPrompts' # defaultSystemPrompts =>
                      /\ defaultSystemPrompts' = <<>>
                      /\ res.kind = "json" /\ res.success
                /\ IsFailure(res) =>
                      /\ defaultSystemPrompts' = defaultSystemPrompts
                      /\ messageArea'.class = "error"
                      /\ Head(messageArea'.text) = "Fout bij resetten instellingen: " ]_vars

\* One reset was declined (an action that sent nothing) and one was confirmed
\* and failed; the text the user typed is still in the field.
C11_Witness ==
    /\ userActions = 2
    /\ requestsSent = 2
    /\ settingsRequests = {}
    /\ defaultSystemPrompts = <<"a">>
    /\ messageArea.class = "error"
    /\ Head(messageArea.text) = "Fout bij resetten instellingen: "

====
